---- MODULE Spec2Model ----
(***************************************************************************)
(* Coal Mine canary stores: the Redis (key-value) store of                 *)
(* coal_mine/redis_store.py and the MongoDB (document) store of            *)
(* coal_mine/mongo_store.py, as state machines over the keys and           *)
(* documents they keep.                                                    *)
(*                                                                         *)
(* A Python dict (a canary, an updates dict, a loaded record) is a record  *)
(* with a field `has` (the keys present), a field `none` (the keys whose   *)
(* value is None) and one typed field per key; a key that is absent or     *)
(* None carries the default value of EmptyDict, so equal dicts are equal   *)
(* records.                                                                *)
(***************************************************************************)
EXTENDS Integers, Sequences, FiniteSets, TLC

\* ------------------------------------------------------------ bounds
Ids == {"c1", "c2"}
Slugs == {"s1", "s2"}
MaxTime == 2
MaxHist == 2
Times == 1..MaxTime
Comments == {"a", "b"}
Names == {"n1"}

\* A datetime, and the POSIX timestamp it converts to.
DateTimes == {[dt |-> t] : t \in Times}
NoDateTime == [dt |-> 0]
timestamp(d) == d.dt
fromtimestamp(ts) == [dt |-> ts]

\* periodicity: a Python value is its type and its text; str() keeps the text.
NoPeriodicity == [type |-> "none", text |-> ""]
Periodicities == {[type |-> "int", text |-> "60"], [type |-> "str", text |-> "daily"]}
IntLiterals == {"60"}
FloatLiterals == {"1.5"}
str(p) == p.text

\* ------------------------------------------------------------ dicts
Keys == {"id", "name", "slug", "periodicity", "paused", "late",
         "deadline", "emails", "history"}

EmptyDict ==
    [has |-> {}, none |-> {}, id |-> "", name |-> "", slug |-> "",
     periodicity |-> NoPeriodicity, paused |-> FALSE, late |-> FALSE,
     deadline |-> NoDateTime, emails |-> <<>>, history |-> <<>>]

\* key in d
In(d, k) == k \in d.has
\* d[k] is None
IsNone(d, k) == k \in d.none
\* d.get(k, None) is neither missing nor None
Given(d, k) == k \in d.has /\ k \notin d.none

\* ------------------------------------------------------------ inputs
Emails == {<<>>, <<"e1">>}

\* history lists of at most MaxHist (timestamp, comment) entries, in
\* ascending timestamp order
RECURSIVE HistoriesOf(_)
HistoriesOf(n) ==
    IF n = 0 THEN {<<>>}
    ELSE LET shorter == HistoriesOf(n - 1)
         IN shorter \cup
            {Append(h, <<d, c>>) : h \in {x \in shorter : Len(x) = n - 1},
                                   d \in DateTimes, c \in Comments}
Histories ==
    {h \in HistoriesOf(MaxHist) :
        \A i \in 1..(Len(h) - 1) : h[i][1].dt < h[i + 1][1].dt}

\* The canaries handed to create: id, name, slug, periodicity, emails and
\* history always, paused, late and deadline optionally.
CanariesOver(ids, sl, pers, ems, hs) ==
    {[EmptyDict EXCEPT
        !.has = {"id", "name", "slug", "periodicity", "emails", "history"} \cup opt,
        !.id = i, !.name = n, !.slug = s, !.periodicity = per,
        !.paused = ("paused" \in opt) /\ p,
        !.late = ("late" \in opt) /\ l,
        !.deadline = IF "deadline" \in opt THEN d ELSE NoDateTime,
        !.emails = em, !.history = h] :
      i \in ids, n \in Names, s \in sl, per \in pers,
      opt \in SUBSET {"paused", "late", "deadline"},
      p \in BOOLEAN, l \in BOOLEAN, d \in DateTimes,
      em \in ems, h \in hs}

\* The updates dicts handed to update: the keys ks, those of nn with the
\* value None (a slug is never None).
UpdatesWith(ks, nn, ems, hs) ==
    {[EmptyDict EXCEPT
        !.has = ks, !.none = nn,
        !.slug = IF "slug" \in ks THEN s ELSE "",
        !.paused = ("paused" \in ks \ nn) /\ p,
        !.late = ("late" \in ks \ nn) /\ l,
        !.deadline = IF "deadline" \in ks \ nn THEN d ELSE NoDateTime,
        !.emails = IF "emails" \in ks \ nn THEN em ELSE <<>>,
        !.history = IF "history" \in ks \ nn THEN h ELSE <<>>] :
      s \in Slugs, p \in BOOLEAN, l \in BOOLEAN, d \in DateTimes,
      em \in ems, h \in hs}
UpdatesOver(keysets, ems, hs) ==
    UNION {UNION {UpdatesWith(ks, nn, ems, hs) : nn \in SUBSET (ks \ {"slug"})} :
             ks \in keysets}

\* The workloads, each a family of callers. The first three make one call
\* after the other. A canary is created
\* well-formed: with paused and late, and with a deadline exactly when it is
\* not paused. "slugs": two canaries created on time and not paused,
\* renamed and deleted. "index": two canaries whose calls exercise the
\* membership sets and the deadlines (an updates dict names one key other
\* than slug, or two of paused, late and deadline). "records": one canary
\* whose calls carry every periodicity, emails list and history.
Workloads == {"slugs", "index", "records", "race", "retry"}
\* "race": two callers at once, whose creates, deletes and lists interleave
\* command by command. "retry": one caller of the MongoDB store over a
\* connection that fails. Their canaries are on time and not paused.
RaceCanaries ==
    {c \in CanariesOver(Ids, Slugs, {[type |-> "int", text |-> "60"]}, {<<>>}, {<<>>}) :
        /\ {"paused", "late", "deadline"} \subseteq c.has
        /\ ~c.paused /\ ~c.late /\ c.deadline.dt = 1}
StateKeys == {"paused", "late", "deadline"}
Int60 == [type |-> "int", text |-> "60"]
WellFormed(c) ==
    /\ {"paused", "late"} \subseteq c.has
    /\ "deadline" \in c.has <=> ~c.paused
SlugCanaries ==
    {c \in CanariesOver(Ids, Slugs, {Int60}, {<<>>}, {<<>>}) :
        WellFormed(c) /\ ~c.paused /\ ~c.late /\ c.deadline.dt = 1}
IndexCanaries ==
    {c \in CanariesOver(Ids, Slugs, {Int60}, {<<>>}, {<<>>}) : WellFormed(c)}
RecordCanaries ==
    {c \in CanariesOver({"c1"}, {"s1"}, Periodicities, Emails, Histories) :
        WellFormed(c)}
SlugUpdates == UpdatesOver({{"slug"}}, {<<>>}, {<<>>})
IndexUpdates ==
    UpdatesOver({{k} : k \in StateKeys \cup {"emails", "history"}}
                    \cup {ks \in SUBSET StateKeys : Cardinality(ks) = 2},
                {<<"e1">>}, {<<>>})
RecordUpdates ==
    UpdatesOver({{k} : k \in StateKeys \cup {"emails", "history"}}
                    \cup {{"paused", "deadline"}}, Emails, Histories)
CreateInputs(w) ==
    CASE w = "slugs" -> SlugCanaries [] w = "index" -> IndexCanaries
      [] w \in {"race", "retry"} -> RaceCanaries
      [] OTHER -> RecordCanaries
UpdateInputs(w) ==
    CASE w \in {"slugs", "race", "retry"} -> SlugUpdates [] w = "index" -> IndexUpdates
      [] OTHER -> RecordUpdates
CallIds(w) == IF w = "records" THEN {"c1"} ELSE Ids
\* how many calls a caller of each workload makes
MaxSlugCalls == 5
MaxIndexCalls == 3
MaxRecordCalls == 3
MaxRaceCalls == 3
MaxRetryCalls == 3
\* how many times the connection to MongoDB is lost before it stays up
MaxFaults == 2
MaxCalls(w) ==
    CASE w = "slugs" -> MaxSlugCalls [] w = "index" -> MaxIndexCalls
      [] w = "race" -> MaxRaceCalls
      [] w = "retry" -> MaxRetryCalls
      [] OTHER -> MaxRecordCalls

\* list()'s paused and late arguments: None, True or False
Filters == {"None", "True", "False"}

\* ------------------------------------------------------------ Redis values
\* A Redis hash is a function from its fields to strings, a sorted set a
\* function from its members to scores; a key that holds nothing does not
\* exist.
Nil == [x \in {} |-> ""]
HSet(h, f, v) == [x \in DOMAIN h \cup {f} |-> IF x = f THEN v ELSE h[x]]
HDel(h, fs) == [x \in DOMAIN h \ fs |-> h[x]]
HMSet(h, m) == [x \in DOMAIN h \cup DOMAIN m |-> IF x \in DOMAIN m THEN m[x] ELSE h[x]]
ZAdd(z, score, member) == HSet(z, member, score)
ZRem(z, member) == HDel(z, {member})

\* Redis orders the members of equal score lexicographically.
Rank(m) == CASE m \in {"a", "c1"} -> 1 [] m \in {"b", "c2"} -> 2 [] OTHER -> 3
Before(z, m1, m2) ==
    \/ z[m1] < z[m2]
    \/ z[m1] = z[m2] /\ Rank(m1) <= Rank(m2)
RECURSIVE ZRangeOf(_, _)
ZRangeOf(z, ms) ==
    IF ms = {} THEN <<>>
    ELSE LET first == CHOOSE m \in ms : \A o \in ms : Before(z, m, o)
         IN <<first>> \o ZRangeOf(z, ms \ {first})
\* zrange(key, 0, -1) and zrangebyscore(key, '-inf', '+inf'): the members
\* in ascending score order
ZRange(z) == ZRangeOf(z, DOMAIN z)

\* ------------------------------------------------------------ state
VARIABLES
    backend,      \* which store the caller was configured with
    workload,     \* which calls the caller makes
    key,          \* Redis: per canary, the hash at <namespace>:<id>
    emails_k,     \* Redis: per canary, the list at <namespace>:<id>:emails
    history_k,    \* Redis: per canary, the sorted set at <namespace>:<id>:history
    slugs,        \* Redis: the hash <namespace>:slugs
    active,       \* Redis: the set <namespace>:active
    paused,       \* Redis: the set <namespace>:paused
    late,         \* Redis: the set <namespace>:late
    ontime,       \* Redis: the set <namespace>:ontime
    deadlines,    \* Redis: the sorted set <namespace>:deadlines
    collection,   \* MongoDB: the documents of db['canaries'], in natural order
    last,         \* the last call and how it ended
    calls,        \* how many calls were made
    callers,      \* concurrent callers: where each is in its call
    pending,      \* MongoDB: the call in its retry loop
    net           \* MongoDB: how many times the connection was lost

redis == <<key, emails_k, history_k, slugs, active, paused, late, ontime, deadlines>>
vars == <<backend, workload, key, emails_k, history_k, slugs, active, paused, late,
          ontime, deadlines, collection, last, calls, callers, pending, net>>

Backends == {"redis", "mongo"}
\* A MongoDB call in its retry loop: how many attempts failed (tries), whether
\* one of them changed the collection (applied), and for a list the records
\* yielded so far, the position of the cursor and where the last find began.
NoCall ==
    [pc |-> "idle", op |-> "", canary |-> EmptyDict, id |-> "", updates |-> EmptyDict,
     slug |-> "", verbose |-> FALSE, tries |-> 0, applied |-> FALSE, pos |-> 0,
     mark |-> 0, yielded |-> <<>>, status |-> ""]
\* The callers that share the store, and a caller that is in no call.
Callers == {"p1", "p2"}
Idle ==
    [pc |-> "idle", op |-> "", canary |-> EmptyDict, id |-> "", verbose |-> FALSE,
     dirty |-> FALSE, slug |-> "", todo |-> <<>>, yielded |-> {}, retries |-> 0,
     status |-> ""]
Call(op, arg, status) == [op |-> op, arg |-> arg, status |-> status]
\* one more call, of operation op with the identifier or slug arg
Returns(op, arg, status) ==
    /\ calls < MaxCalls(workload)
    /\ calls' = calls + 1
    /\ last' = Call(op, arg, status)
    /\ UNCHANGED <<backend, workload, callers, pending, net>>

\* RedisStore.__init__ and MongoStore.__init__ write nothing but the indexes.
Init ==
    /\ backend \in Backends
    /\ workload \in Workloads
    /\ key = [i \in Ids |-> Nil]
    /\ emails_k = [i \in Ids |-> <<>>]
    /\ history_k = [i \in Ids |-> Nil]
    /\ slugs = Nil
    /\ active = {}
    /\ paused = {}
    /\ late = {}
    /\ ontime = {}
    /\ deadlines = Nil
    /\ collection = <<>>
    /\ last = Call("init", "", "ok")
    /\ calls = 0
    /\ callers = [p \in Callers |-> Idle]
    /\ pending = NoCall
    /\ net = 0

\* pipe.exists(self.key)
Exists(id) == DOMAIN key[id] # {}

\* ------------------------------------------------------------ RedisCanary.save
\* The keys of the canary that reach data: those whose value is not None.
DataKeys(canary) == canary.has \ canary.none
\* data after the pops of id, deadline, emails and history, as hmset sends it:
\* every value as its string, paused and late as 1 or 0.
HashData(canary) ==
    [k \in DataKeys(canary) \ {"id", "deadline", "emails", "history"} |->
        CASE k = "name" -> canary.name
          [] k = "slug" -> canary.slug
          [] k = "periodicity" -> str(canary.periodicity)
          [] k = "paused" -> IF canary.paused THEN "1" ELSE "0"
          [] k = "late" -> IF canary.late THEN "1" ELSE "0"]

\* How save ends: the checks of _save, then the AttributeError of
\* deadline.timestamp() when paused is False and no deadline was given.
\* An exception raised in _save leaves the queued commands unsent.
SaveStatus(id, canary, create) ==
    IF Exists(id) /\ create THEN "Conflict"
    ELSE IF ~Exists(id) /\ ~create THEN "NotFound"
    ELSE IF create /\ canary.slug \in DOMAIN slugs THEN "Conflict"
    ELSE IF Given(canary, "paused") /\ ~canary.paused /\ ~Given(canary, "deadline")
         THEN "Error"
    ELSE "ok"

\* the hash at self.key after the hdel and delete of the None loop and the
\* final hmset
SaveKey(h, canary) ==
    LET wiped == IsNone(canary, "emails") \/ IsNone(canary, "history")
        h1 == IF wiped THEN Nil
              ELSE HDel(h, canary.none \ {"emails", "history", "deadline"})
    IN HMSet(h1, HashData(canary))

\* the zadds of the history loop, in order: a comment that comes twice
\* keeps one member, with the score of the last
RECURSIVE ZAddAll(_, _)
ZAddAll(z, h) ==
    IF h = <<>> THEN z
    ELSE ZAddAll(ZAdd(z, timestamp(Head(h)[1]), Head(h)[2]), Tail(h))

\* the commands _save queues after pipe.multi(), as EXEC applies them
SaveWrites(id, canary) ==
    LET isPaused == Given(canary, "paused") /\ canary.paused
        notPaused == Given(canary, "paused") /\ ~canary.paused
        isLate == Given(canary, "late") /\ canary.late
        notLate == Given(canary, "late") /\ ~canary.late
        d1 == IF IsNone(canary, "deadline") THEN ZRem(deadlines, id) ELSE deadlines
    IN /\ slugs' = IF In(canary, "slug")
                   THEN HSet(slugs, canary.slug, id) ELSE slugs
       /\ key' = [key EXCEPT ![id] = SaveKey(@, canary)]
       /\ emails_k' = IF Given(canary, "emails") /\ canary.emails # <<>>
                      THEN [emails_k EXCEPT ![id] = canary.emails]
                      ELSE emails_k
       /\ history_k' = IF Given(canary, "history")
                       THEN [history_k EXCEPT ![id] = ZAddAll(Nil, canary.history)]
                       ELSE history_k
       /\ late' = IF isLate THEN late \cup {id} ELSE late
       /\ ontime' = IF notLate THEN ontime \cup {id} ELSE ontime
       /\ paused' = IF isPaused THEN paused \cup {id} ELSE paused
       /\ active' = IF notPaused THEN active \cup {id} ELSE active
       /\ deadlines' = IF isPaused THEN ZRem(d1, id)
                       ELSE IF notPaused
                       THEN ZAdd(d1, timestamp(canary.deadline), id)
                       ELSE d1

\* save with no other caller at work: the transaction runs once
Save(id, canary, create) ==
    LET status == SaveStatus(id, canary, create)
    IN /\ Returns(IF create THEN "create" ELSE "update", id, status)
       /\ IF status # "ok" THEN UNCHANGED redis ELSE SaveWrites(id, canary)

\* RedisStore.create
RedisCreate(canary) ==
    /\ backend = "redis"
    /\ Save(canary.id, canary, TRUE)
    /\ UNCHANGED collection

\* RedisStore.update
RedisUpdate(identifier, updates) ==
    /\ backend = "redis"
    /\ Save(identifier, updates, FALSE)
    /\ UNCHANGED collection

\* RedisStore.delete: hget of the slug, then the atomic section. An id with
\* no hash gives slug None, and hdel of the field 'None' removes nothing.
\* slug = pipe.hget(self.key, 'slug'); the text of None when there is none
SlugRead(identifier) ==
    IF "slug" \in DOMAIN key[identifier] THEN key[identifier]["slug"] ELSE "None"
\* the commands _del queues after pipe.multi(), as EXEC applies them
DeleteWrites(identifier, slug) ==
    /\ slugs' = HDel(slugs, {slug})
    /\ active' = active \ {identifier}
    /\ paused' = paused \ {identifier}
    /\ late' = late \ {identifier}
    /\ ontime' = ontime \ {identifier}
    /\ deadlines' = ZRem(deadlines, identifier)
    /\ history_k' = [history_k EXCEPT ![identifier] = Nil]
    /\ emails_k' = [emails_k EXCEPT ![identifier] = <<>>]
    /\ key' = [key EXCEPT ![identifier] = Nil]
RedisDelete(identifier) ==
    /\ backend = "redis"
    /\ Returns("delete", identifier, "ok")
    /\ DeleteWrites(identifier, SlugRead(identifier))
    /\ UNCHANGED collection

\* ------------------------------------------------------------ RedisCanary.load
bool(text) == text = "1"
\* int(), then float(), then str() of the stored periodicity
Coerce(text) ==
    IF text \in IntLiterals THEN [type |-> "int", text |-> text]
    ELSE IF text \in FloatLiterals THEN [type |-> "float", text |-> text]
    ELSE [type |-> "str", text |-> text]

\* paused as bool(int(...)), None when the hash has no such field
PausedOf(h) == "paused" \in DOMAIN h /\ bool(h["paused"])
LateOf(h) == "late" \in DOMAIN h /\ bool(h["late"])

\* KeyError when the hash is absent; TypeError from float(None) when the
\* canary is not paused and deadlines has no score for it.
LoadStatus(id) ==
    IF ~Exists(id) THEN "NotFound"
    ELSE IF ~PausedOf(key[id]) /\ id \notin DOMAIN deadlines THEN "Error"
    ELSE "ok"

\* zrange(history_k, 0, -1, withscores=True) as (datetime, member) pairs
LoadHistory(z) ==
    LET ms == ZRange(z)
    IN [i \in 1..Len(ms) |-> <<fromtimestamp(z[ms[i]]), ms[i]>>]

\* the dict load returns when LoadStatus is "ok"
Load(id) ==
    LET h == key[id]
    IN [EmptyDict EXCEPT
          !.has = DOMAIN h \cup {"emails", "history", "paused", "late", "id"}
                    \cup (IF PausedOf(h) THEN {} ELSE {"deadline"}),
          !.id = id,
          !.name = IF "name" \in DOMAIN h THEN h["name"] ELSE "",
          !.slug = IF "slug" \in DOMAIN h THEN h["slug"] ELSE "",
          !.periodicity = IF "periodicity" \in DOMAIN h
                          THEN Coerce(h["periodicity"]) ELSE NoPeriodicity,
          !.paused = PausedOf(h),
          !.late = LateOf(h),
          !.deadline = IF ~PausedOf(h) /\ id \in DOMAIN deadlines
                       THEN fromtimestamp(deadlines[id]) ELSE NoDateTime,
          !.emails = emails_k[id],
          !.history = LoadHistory(history_k[id])]

\* hmget(key, 'name', 'slug') is a two-element list, never falsy: load_brief
\* returns name and slug, None where the hash has no such field.
LoadBrief(id) ==
    LET h == key[id]
    IN [EmptyDict EXCEPT
          !.has = {"name", "id", "slug"},
          !.none = {"name", "slug"} \ DOMAIN h,
          !.id = id,
          !.name = IF "name" \in DOMAIN h THEN h["name"] ELSE "",
          !.slug = IF "slug" \in DOMAIN h THEN h["slug"] ELSE ""]

\* RedisStore.get
RedisGet(identifier) ==
    /\ backend = "redis"
    /\ Returns("get", identifier, LoadStatus(identifier))
    /\ UNCHANGED <<redis, collection>>

\* ------------------------------------------------------------ RedisStore.list
\* the sets handed to sunion
ListSets(p, l) ==
    (CASE p = "None" -> {paused, active} [] p = "True" -> {paused} [] OTHER -> {active})
    \cup
    (CASE l = "None" -> {late, ontime} [] l = "True" -> {late} [] OTHER -> {ontime})
\* ids = self.client.sunion(*sets)
ListIds(p, l) == UNION ListSets(p, l)
\* How the iteration can end: load raises for a member it cannot load,
\* load_brief never does. The members come in no fixed order, so any
\* failing member may be the one that ends it.
ListStatuses(verbose, p, l) ==
    IF verbose /\ \E i \in ListIds(p, l) : LoadStatus(i) # "ok"
    THEN {LoadStatus(i) : i \in {x \in ListIds(p, l) : LoadStatus(x) # "ok"}}
    ELSE {"ok"}
\* the records a brief list yields (search is None): load_brief less slug
Brief(i) ==
    [LoadBrief(i) EXCEPT !.has = @ \ {"slug"}, !.none = @ \ {"slug"}, !.slug = ""]
ListBrief(p, l) == {Brief(i) : i \in ListIds(p, l)}
\* the records a verbose list yields when every member loads
ListVerbose(p, l) == {Load(i) : i \in ListIds(p, l)}

RedisList(verbose, p, l) ==
    /\ backend = "redis"
    /\ \E status \in ListStatuses(verbose, p, l) : Returns("list", "", status)
    /\ UNCHANGED <<redis, collection>>

\* RedisStore.upcoming_deadlines: load of every member of deadlines, in
\* ascending score order; the first member that does not load ends it.
UpcomingIds == ZRange(deadlines)
UpcomingStatus ==
    IF \E n \in 1..Len(UpcomingIds) : LoadStatus(UpcomingIds[n]) # "ok"
    THEN LoadStatus(UpcomingIds[
            CHOOSE n \in 1..Len(UpcomingIds) :
                /\ LoadStatus(UpcomingIds[n]) # "ok"
                /\ \A m \in 1..(n - 1) : LoadStatus(UpcomingIds[m]) = "ok"])
    ELSE "ok"
RedisUpcomingDeadlines ==
    /\ backend = "redis"
    /\ Returns("upcoming_deadlines", "", UpcomingStatus)
    /\ UNCHANGED <<redis, collection>>

\* RedisStore.find_identifier
FindStatus(slug) == IF slug \in DOMAIN slugs THEN "ok" ELSE "NotFound"
RedisFindIdentifier(slug) ==
    /\ backend = "redis"
    /\ Returns("find_identifier", slug, FindStatus(slug))
    /\ UNCHANGED <<redis, collection>>

\* ------------------------------------------------------------ MongoStore
\* A document is the dict it was inserted as (its _id apart), its fields set
\* and unset by the updates since. find_one, update_one and remove match on
\* the field id; the documents keep their natural (insertion) order.
Matches(doc, k, v) == k \in doc.has /\ doc[k] = v
Matching(k, v) == {n \in 1..Len(collection) : Matches(collection[n], k, v)}
First(ns) == CHOOSE n \in ns : \A m \in ns : n <= m

\* the key of a document in the unique index on slug: the slug, or null
SlugKey(doc) == IF "slug" \in doc.has THEN doc.slug ELSE "null"
\* DuplicateKeyError: another document holds the slug key of doc
Duplicate(doc, others) ==
    \E n \in others : SlugKey(collection[n]) = SlugKey(doc)

\* MongoStore.create: insert_one, refused by the unique index on slug
InsertStatus(canary) ==
    IF Duplicate(canary, 1..Len(collection)) THEN "Conflict" ELSE "ok"
Inserted(canary) ==
    IF InsertStatus(canary) = "ok" THEN Append(collection, canary) ELSE collection
MongoCreate(canary) ==
    /\ backend = "mongo"
    /\ Returns("create", canary.id, InsertStatus(canary))
    /\ collection' = Inserted(canary)
    /\ UNCHANGED redis

\* $set of the keys with a value, $unset of the keys that are None
SetUnset(doc, updates) ==
    LET set == updates.has \ updates.none
    IN [k \in DOMAIN doc |->
          CASE k = "has" -> (doc.has \cup set) \ updates.none
            [] k = "none" -> {}
            [] k \in set -> updates[k]
            [] k \in updates.none -> EmptyDict[k]
            [] OTHER -> doc[k]]

\* An updates dict of None values alone sends an empty $set, which the
\* server refuses or accepts depending on its version.
EmptySetOutcomes(updates) ==
    IF updates.has = updates.none THEN {"ok", "Error"} ELSE {"ok"}

\* MongoStore.update: update_one on the first document with the id; no
\* document with the id is no error.
UpdateOneStatus(identifier, updates, outcome) ==
    LET ns == Matching("id", identifier)
    IN IF outcome = "Error" THEN "Error"
       ELSE IF ns = {} THEN "ok"
       ELSE IF Duplicate(SetUnset(collection[First(ns)], updates),
                         (1..Len(collection)) \ {First(ns)})
       THEN "Conflict"
       ELSE "ok"
UpdatedOne(identifier, updates, outcome) ==
    LET ns == Matching("id", identifier)
    IN IF ns = {} \/ UpdateOneStatus(identifier, updates, outcome) # "ok"
       THEN collection
       ELSE [collection EXCEPT ![First(ns)] = SetUnset(@, updates)]
MongoUpdate(identifier, updates) ==
    /\ backend = "mongo"
    /\ \E outcome \in EmptySetOutcomes(updates) :
         /\ Returns("update", identifier, UpdateOneStatus(identifier, updates, outcome))
         /\ collection' = UpdatedOne(identifier, updates, outcome)
    /\ UNCHANGED redis

\* MongoStore.get: KeyError when find_one finds nothing
MongoGetStatus(identifier) ==
    IF Matching("id", identifier) = {} THEN "NotFound" ELSE "ok"
\* the document get returns when MongoGetStatus is "ok"
MongoLoad(identifier) == collection[First(Matching("id", identifier))]
MongoGet(identifier) ==
    /\ backend = "mongo"
    /\ Returns("get", identifier, MongoGetStatus(identifier))
    /\ UNCHANGED <<redis, collection>>

\* MongoStore.list: the documents matching spec (search is None)
MongoListSpec(doc, p, l) ==
    /\ p # "None" => Matches(doc, "paused", p = "True")
    /\ l # "None" => Matches(doc, "late", l = "True")
MongoFound(p, l) ==
    SelectSeq(collection, LAMBDA doc : MongoListSpec(doc, p, l))
\* sort=[(order_by, ASCENDING)] on deadline: a stable selection of the least
\* deadline, a document without one first
DeadlineKey(doc) == IF "deadline" \in doc.has THEN timestamp(doc.deadline) ELSE 0
RECURSIVE SortByDeadline(_)
SortByDeadline(docs) ==
    IF docs = <<>> THEN <<>>
    ELSE LET n == CHOOSE i \in 1..Len(docs) :
                    /\ \A j \in 1..Len(docs) : DeadlineKey(docs[i]) <= DeadlineKey(docs[j])
                    /\ \A j \in 1..(i - 1) : DeadlineKey(docs[j]) # DeadlineKey(docs[i])
         IN <<docs[n]>> \o
            SortByDeadline([i \in 1..(Len(docs) - 1) |->
                                IF i < n THEN docs[i] ELSE docs[i + 1]])
\* projection={'_id': False, 'name': True, 'id': True}
Project(doc) ==
    [EmptyDict EXCEPT !.has = doc.has \cap {"name", "id"},
                      !.name = doc.name, !.id = doc.id]
MongoListResult(verbose, p, l, order_by) ==
    LET found == MongoFound(p, l)
        sorted == IF order_by = "deadline" THEN SortByDeadline(found) ELSE found
    IN [n \in 1..Len(sorted) |-> IF verbose THEN sorted[n] ELSE Project(sorted[n])]
MongoList(verbose, p, l, order_by) ==
    /\ backend = "mongo"
    /\ Returns("list", "", "ok")
    /\ UNCHANGED <<redis, collection>>

\* MongoStore.upcoming_deadlines
MongoUpcoming == MongoListResult(TRUE, "False", "False", "deadline")
MongoUpcomingDeadlines ==
    /\ backend = "mongo"
    /\ Returns("upcoming_deadlines", "", "ok")
    /\ UNCHANGED <<redis, collection>>

\* MongoStore.delete: remove of every document with the id, KeyError when
\* there was none
RemoveStatus(identifier) ==
    IF Matching("id", identifier) = {} THEN "NotFound" ELSE "ok"
Removed(identifier) ==
    SelectSeq(collection, LAMBDA doc : ~Matches(doc, "id", identifier))
MongoDelete(identifier) ==
    /\ backend = "mongo"
    /\ Returns("delete", identifier, RemoveStatus(identifier))
    /\ collection' = Removed(identifier)
    /\ UNCHANGED redis

\* MongoStore.find_identifier
MongoFindStatus(slug) == IF Matching("slug", slug) = {} THEN "NotFound" ELSE "ok"
MongoFind(slug) == collection[First(Matching("slug", slug))].id
MongoFindIdentifier(slug) ==
    /\ backend = "mongo"
    /\ Returns("find_identifier", slug, MongoFindStatus(slug))
    /\ UNCHANGED <<redis, collection>>

\* ------------------------------------------------------------ the callers
\* MongoStore never reads or checks the id of the canary it inserts: its
\* caller draws one that no stored document has.
FreshId(canary) == Matching("id", canary.id) = {}

Next ==
    \/ \E canary \in CreateInputs(workload) : RedisCreate(canary)
    \/ \E identifier \in CallIds(workload), updates \in UpdateInputs(workload) :
          RedisUpdate(identifier, updates)
    \/ \E identifier \in CallIds(workload) : RedisDelete(identifier)
    \/ \E identifier \in CallIds(workload) : RedisGet(identifier)
    \/ \E verbose \in BOOLEAN, p \in Filters, l \in Filters : RedisList(verbose, p, l)
    \/ RedisUpcomingDeadlines
    \/ \E slug \in Slugs : RedisFindIdentifier(slug)
    \/ \E canary \in CreateInputs(workload) : FreshId(canary) /\ MongoCreate(canary)
    \/ \E identifier \in CallIds(workload), updates \in UpdateInputs(workload) :
          MongoUpdate(identifier, updates)
    \/ \E identifier \in CallIds(workload) : MongoDelete(identifier)
    \/ \E identifier \in CallIds(workload) : MongoGet(identifier)
    \/ \E verbose \in BOOLEAN, p \in Filters, l \in Filters,
          order_by \in {"None", "deadline"} : MongoList(verbose, p, l, order_by)
    \/ MongoUpcomingDeadlines
    \/ \E slug \in Slugs : MongoFindIdentifier(slug)

Spec == Init /\ [][Next]_vars
\* the callers of one workload
InitSlugs == Init /\ workload = "slugs"
InitIndex == Init /\ workload = "index"
InitRecords == Init /\ workload = "records"
SpecSlugs == InitSlugs /\ [][Next]_vars
SpecIndex == InitIndex /\ [][Next]_vars
SpecRecords == InitRecords /\ [][Next]_vars

\* ------------------------------------------------------------ concurrent callers
\* client.transaction(func, *watches): WATCH of the canary's three keys, the
\* reads of func one command at a time, then MULTI ... EXEC, which is aborted
\* (WatchError) and the whole run again when a watched key was touched since
\* the WATCH. A caller is at "start", "watching", "exists", "queued",
\* "iterating" or "done".
InCall(p) == callers[p].pc \notin {"idle", "done"}
Begin(p, op, canary, id, verbose) ==
    /\ workload = "race"
    /\ ~InCall(p)
    /\ calls < MaxCalls(workload)
    /\ calls' = calls + 1
    /\ callers' = [callers EXCEPT ![p] =
          [Idle EXCEPT !.pc = "start", !.op = op, !.canary = canary, !.id = id,
                       !.verbose = verbose]]
    /\ UNCHANGED <<backend, workload, pending, net, redis, collection, last>>

\* a call of create; the ids of MongoDB canaries are drawn fresh
BeginCreate(p, canary) ==
    /\ backend = "mongo" =>
          /\ FreshId(canary)
          /\ \A q \in Callers : InCall(q) => callers[q].id # canary.id
    /\ Begin(p, "create", canary, canary.id, FALSE)
BeginDelete(p, identifier) == Begin(p, "delete", EmptyDict, identifier, FALSE)
BeginList(p, verbose) ==
    /\ backend = "redis"
    /\ Begin(p, "list", EmptyDict, "", verbose)
BeginUpcomingDeadlines(p) ==
    /\ backend = "redis"
    /\ Begin(p, "upcoming_deadlines", EmptyDict, "", TRUE)

\* the call of p ends: it returns, or raises what status names
Finish(rec, status) ==
    [rec EXCEPT !.pc = "done", !.status = status, !.dirty = FALSE, !.slug = "",
                !.todo = <<>>]
Done(p, status) ==
    /\ callers' = [callers EXCEPT ![p] = Finish(@, status)]
    /\ last' = Call(callers[p].op, callers[p].id, status)
    /\ UNCHANGED <<backend, workload, pending, net, calls>>
\* p moves on inside its call
Goto(p, pc) ==
    /\ callers' = [callers EXCEPT ![p].pc = pc]
    /\ UNCHANGED <<backend, workload, pending, net, calls, last>>

\* pipe.watch(self.key, self.emails_k, self.history_k)
Watch(p) ==
    /\ backend = "redis"
    /\ callers[p].pc = "start"
    /\ callers[p].op \in {"create", "delete"}
    /\ callers' = [callers EXCEPT ![p].pc = "watching", ![p].dirty = FALSE]
    /\ UNCHANGED <<backend, workload, pending, net, calls, last, redis, collection>>

\* _save: pipe.exists(self.key), with create=True
SaveExists(p) ==
    /\ backend = "redis"
    /\ callers[p].pc = "watching" /\ callers[p].op = "create"
    /\ IF Exists(callers[p].id) THEN Done(p, "Conflict") ELSE Goto(p, "exists")
    /\ UNCHANGED <<redis, collection>>

\* _save: pipe.hexists(self.store.slugs, canary['slug']), then the queueing
\* of the commands
SaveHexists(p) ==
    /\ backend = "redis"
    /\ callers[p].pc = "exists"
    /\ LET canary == callers[p].canary
       IN IF canary.slug \in DOMAIN slugs THEN Done(p, "Conflict")
          ELSE IF Given(canary, "paused") /\ ~canary.paused /\ ~Given(canary, "deadline")
          THEN Done(p, "Error")
          ELSE Goto(p, "queued")
    /\ UNCHANGED <<redis, collection>>

\* _del: slug = pipe.hget(self.key, 'slug'), then the queueing
DelHget(p) ==
    /\ backend = "redis"
    /\ callers[p].pc = "watching" /\ callers[p].op = "delete"
    /\ callers' = [callers EXCEPT ![p].pc = "queued",
                                  ![p].slug = SlugRead(callers[p].id)]
    /\ UNCHANGED <<backend, workload, pending, net, calls, last, redis, collection>>

\* EXEC touches the keys of the canary: hmset always writes self.key, delete
\* touches the keys that exist
Touches(p) ==
    \/ callers[p].op = "create"
    \/ Exists(callers[p].id)
    \/ emails_k[callers[p].id] # <<>>
    \/ history_k[callers[p].id] # Nil
\* pipe.execute() raises WatchError
ExecNeverAborted(p) == FALSE
WatchError(p) == callers[p].dirty
\* the other callers that watch the keys p writes
Watchers(p) ==
    {q \in Callers \ {p} :
        /\ callers[q].pc \in {"watching", "exists", "queued"}
        /\ callers[q].id = callers[p].id}

\* pipe.execute(): the queued commands at once
Execute(p) ==
    /\ backend = "redis"
    /\ callers[p].pc = "queued"
    /\ ~WatchError(p)
    /\ IF callers[p].op = "create"
       THEN SaveWrites(callers[p].id, callers[p].canary)
       ELSE DeleteWrites(callers[p].id, callers[p].slug)
    /\ callers' = [q \in Callers |->
          IF q = p THEN Finish(callers[p], "ok")
          ELSE IF q \in Watchers(p) /\ Touches(p) THEN [callers[q] EXCEPT !.dirty = TRUE]
          ELSE callers[q]]
    /\ last' = Call(callers[p].op, callers[p].id, "ok")
    /\ UNCHANGED <<backend, workload, pending, net, calls, collection>>

\* except WatchError: continue
ExecuteAborted(p) ==
    /\ backend = "redis"
    /\ callers[p].pc = "queued"
    /\ WatchError(p)
    /\ callers' = [callers EXCEPT ![p].pc = "start", ![p].dirty = FALSE,
                                  ![p].slug = "", ![p].retries = @ + 1]
    /\ UNCHANGED <<backend, workload, pending, net, calls, last, redis, collection>>

\* the orders in which a set can be iterated
Orders(S) ==
    {o \in [1..Cardinality(S) -> S] :
        \A i, j \in 1..Cardinality(S) : i # j => o[i] # o[j]}
\* list: ids = self.client.sunion(*sets), with no filter
Sunion(p) ==
    /\ backend = "redis"
    /\ callers[p].pc = "start" /\ callers[p].op = "list"
    /\ \E order \in Orders(ListIds("None", "None")) :
          callers' = [callers EXCEPT ![p].pc = "iterating", ![p].todo = order]
    /\ UNCHANGED <<backend, workload, pending, net, calls, last, redis, collection>>
\* upcoming_deadlines: zrangebyscore(self.deadlines, '-inf', '+inf')
Zrangebyscore(p) ==
    /\ backend = "redis"
    /\ callers[p].pc = "start" /\ callers[p].op = "upcoming_deadlines"
    /\ callers' = [callers EXCEPT ![p].pc = "iterating", ![p].todo = ZRange(deadlines)]
    /\ UNCHANGED <<backend, workload, pending, net, calls, last, redis, collection>>
\* the next member: cn.load() or cn.load_brief(), and the yield of its record
LoadMember(p) ==
    /\ backend = "redis"
    /\ callers[p].pc = "iterating" /\ callers[p].todo # <<>>
    /\ LET i == Head(callers[p].todo)
       IN IF callers[p].verbose
          THEN IF LoadStatus(i) # "ok" THEN Done(p, LoadStatus(i))
               ELSE /\ callers' = [callers EXCEPT ![p].todo = Tail(@),
                                                  ![p].yielded = @ \cup {Load(i)}]
                    /\ UNCHANGED <<backend, workload, pending, net, calls, last>>
          ELSE /\ callers' = [callers EXCEPT ![p].todo = Tail(@),
                                             ![p].yielded = @ \cup {Brief(i)}]
               /\ UNCHANGED <<backend, workload, pending, net, calls, last>>
    /\ UNCHANGED <<redis, collection>>
\* the iteration is over
Exhausted(p) ==
    /\ backend = "redis"
    /\ callers[p].pc = "iterating" /\ callers[p].todo = <<>>
    /\ Done(p, "ok")
    /\ UNCHANGED <<redis, collection>>

\* MongoDB: insert_one and remove are one command each
InsertOne(p) ==
    /\ backend = "mongo"
    /\ callers[p].pc = "start" /\ callers[p].op = "create"
    /\ Done(p, InsertStatus(callers[p].canary))
    /\ collection' = Inserted(callers[p].canary)
    /\ UNCHANGED redis
Remove(p) ==
    /\ backend = "mongo"
    /\ callers[p].pc = "start" /\ callers[p].op = "delete"
    /\ Done(p, RemoveStatus(callers[p].id))
    /\ collection' = Removed(callers[p].id)
    /\ UNCHANGED redis

NextRace ==
    \/ \E p \in Callers, canary \in RaceCanaries : BeginCreate(p, canary)
    \/ \E p \in Callers, identifier \in Ids : BeginDelete(p, identifier)
    \/ \E p \in Callers, verbose \in BOOLEAN : BeginList(p, verbose)
    \/ \E p \in Callers : BeginUpcomingDeadlines(p)
    \/ \E p \in Callers : Watch(p)
    \/ \E p \in Callers : SaveExists(p)
    \/ \E p \in Callers : SaveHexists(p)
    \/ \E p \in Callers : DelHget(p)
    \/ \E p \in Callers : Execute(p)
    \/ \E p \in Callers : ExecuteAborted(p)
    \/ \E p \in Callers : Sunion(p)
    \/ \E p \in Callers : Zrangebyscore(p)
    \/ \E p \in Callers : LoadMember(p)
    \/ \E p \in Callers : Exhausted(p)
    \/ \E p \in Callers : InsertOne(p)
    \/ \E p \in Callers : Remove(p)
InitRace == Init /\ workload = "race"
SpecRace == InitRace /\ [][NextRace]_vars

\* ------------------------------------------------------------ MongoStore retry loops
\* "retry": one caller of the MongoDB store over a connection that is lost
\* up to MaxFaults times. Every method runs its command in `while True`,
\* catches AutoReconnect, sleeps and tries again; an attempt is lost before
\* the server saw the command, or after the server applied it, or answered.
Trying == pending.pc \in {"trying", "iterating"}
MongoBegin(pc, op, canary, id, updates, slug, verbose) ==
    /\ workload = "retry" /\ backend = "mongo"
    /\ ~Trying
    /\ calls < MaxCalls(workload)
    /\ calls' = calls + 1
    /\ pending' = [NoCall EXCEPT !.pc = pc, !.op = op, !.canary = canary, !.id = id,
                                 !.updates = updates, !.slug = slug, !.verbose = verbose]
    /\ UNCHANGED <<backend, workload, redis, collection, last, callers, net>>

BeginInsertOne(canary) ==
    /\ FreshId(canary)
    /\ MongoBegin("trying", "create", canary, canary.id, EmptyDict, "", FALSE)
BeginUpdateOne(identifier, updates) ==
    MongoBegin("trying", "update", EmptyDict, identifier, updates, "", FALSE)
BeginFindOne(identifier) ==
    MongoBegin("trying", "get", EmptyDict, identifier, EmptyDict, "", FALSE)
BeginRemove(identifier) ==
    MongoBegin("trying", "delete", EmptyDict, identifier, EmptyDict, "", FALSE)
BeginFindSlug(slug) ==
    MongoBegin("trying", "find_identifier", EmptyDict, "", EmptyDict, slug, FALSE)
\* list is a generator: find sends nothing until the first record is asked for
BeginFind(verbose) ==
    MongoBegin("iterating", "list", EmptyDict, "", EmptyDict, "", verbose)
BeginUpcoming ==
    MongoBegin("iterating", "upcoming_deadlines", EmptyDict, "", EmptyDict, "", TRUE)

\* what the server answers to the command of the pending call, and the
\* collection it leaves. insert_one sends the _id that create drew once,
\* before the loop: a second insert of it is a DuplicateKeyError.
AnswerStatus(outcome) ==
    CASE pending.op = "create" ->
            IF pending.applied THEN "Conflict" ELSE InsertStatus(pending.canary)
      [] pending.op = "update" -> UpdateOneStatus(pending.id, pending.updates, outcome)
      [] pending.op = "get" -> MongoGetStatus(pending.id)
      [] pending.op = "delete" -> RemoveStatus(pending.id)
      [] pending.op = "find_identifier" -> MongoFindStatus(pending.slug)
      [] OTHER -> "ok"
AnswerWrites(outcome) ==
    CASE pending.op = "create" ->
            IF pending.applied THEN collection ELSE Inserted(pending.canary)
      [] pending.op = "update" -> UpdatedOne(pending.id, pending.updates, outcome)
      [] pending.op = "delete" -> Removed(pending.id)
      [] OTHER -> collection

\* skip = 0, never advanced: the find of every attempt starts at the first
\* matching document
SkipYielded == pending.pos
skip == 0
\* the records the cursor of the pending list holds
Found ==
    IF pending.op = "upcoming_deadlines" THEN MongoUpcoming
    ELSE MongoListResult(pending.verbose, "None", "None", "None")

\* the failure raised to the caller
Surfaced == [pending EXCEPT !.pc = "done", !.status = "AutoReconnect"]
\* except AutoReconnect: log, sleep(1), and round the loop again
Retry == [pending EXCEPT !.tries = @ + 1, !.pos = skip, !.mark = Len(pending.yielded)]

\* an attempt is lost before the server saw the command
AutoReconnect ==
    /\ Trying
    /\ net < MaxFaults
    /\ net' = net + 1
    /\ pending' = Retry
    /\ UNCHANGED <<backend, workload, redis, collection, last, calls, callers>>

\* an attempt is lost after the server applied the write: the reply never
\* arrives and the driver raises AutoReconnect
ReplyLost ==
    /\ pending.pc = "trying"
    /\ pending.op \in {"create", "update", "delete"}
    /\ net < MaxFaults
    /\ net' = net + 1
    /\ \E outcome \in EmptySetOutcomes(pending.updates) :
          /\ collection' = AnswerWrites(outcome)
          /\ pending' = [Retry EXCEPT !.applied = @ \/ collection' # collection]
    /\ UNCHANGED <<backend, workload, redis, last, calls, callers>>

\* an attempt is answered: the method returns, or raises what the answer is
Answered ==
    /\ pending.pc = "trying"
    /\ \E outcome \in EmptySetOutcomes(pending.updates) :
          /\ collection' = AnswerWrites(outcome)
          /\ pending' = [pending EXCEPT !.pc = "done", !.status = AnswerStatus(outcome)]
          /\ last' = Call(pending.op, pending.id, AnswerStatus(outcome))
    /\ UNCHANGED <<backend, workload, redis, calls, callers, net>>

\* the cursor hands over the next record and list yields it
Yield ==
    /\ pending.pc = "iterating"
    /\ pending.pos < Len(Found)
    /\ pending' = [pending EXCEPT !.pos = @ + 1,
                                  !.yielded = Append(@, Found[pending.pos + 1])]
    /\ UNCHANGED <<backend, workload, redis, collection, last, calls, callers, net>>
\* the cursor is exhausted: break
Break ==
    /\ pending.pc = "iterating"
    /\ pending.pos = Len(Found)
    /\ pending' = [pending EXCEPT !.pc = "done", !.status = "ok"]
    /\ last' = Call(pending.op, "", "ok")
    /\ UNCHANGED <<backend, workload, redis, collection, calls, callers, net>>

\* the steps of a call that is in its loop
RetryLoop == AutoReconnect \/ ReplyLost \/ Answered \/ Yield \/ Break
NextRetry ==
    \/ \E canary \in CreateInputs(workload) : BeginInsertOne(canary)
    \/ \E identifier \in Ids, updates \in UpdateInputs(workload) :
          BeginUpdateOne(identifier, updates)
    \/ \E identifier \in Ids : BeginFindOne(identifier)
    \/ \E identifier \in Ids : BeginRemove(identifier)
    \/ \E slug \in Slugs : BeginFindSlug(slug)
    \/ \E verbose \in BOOLEAN : BeginFind(verbose)
    \/ BeginUpcoming
    \/ AutoReconnect
    \/ ReplyLost
    \/ Answered
    \/ Yield
    \/ Break
InitRetry == Init /\ workload = "retry" /\ backend = "mongo"
SpecRetry == InitRetry /\ [][NextRetry]_vars
\* the loop of a call keeps running; the connection stays up in the end
SpecRetryFair == SpecRetry /\ WF_vars(RetryLoop)

\* ------------------------------------------------------------ what a caller sees
store == <<redis, collection>>

\* the ids that have a stored record
StoredIds ==
    IF backend = "redis" THEN {i \in Ids : Exists(i)}
    ELSE {collection[n].id : n \in {m \in 1..Len(collection) : "id" \in collection[m].has}}
\* get(id): how it ends, and what it returns when it ends well
GetStatus(id) == IF backend = "redis" THEN LoadStatus(id) ELSE MongoGetStatus(id)
GetRecord(id) == IF backend = "redis" THEN Load(id) ELSE MongoLoad(id)
\* the stored canary id has the slug s
HasSlug(id, s) ==
    IF backend = "redis"
    THEN Exists(id) /\ "slug" \in DOMAIN key[id] /\ key[id]["slug"] = s
    ELSE \E n \in 1..Len(collection) :
            Matches(collection[n], "id", id) /\ Matches(collection[n], "slug", s)
\* find_identifier(s) returns id
FindsId(s, id) ==
    IF backend = "redis" THEN s \in DOMAIN slugs /\ slugs[s] = id
    ELSE MongoFindStatus(s) = "ok" /\ MongoFind(s) = id
\* the stored canary id is paused, is late
IsPaused(id) ==
    IF backend = "redis" THEN PausedOf(key[id])
    ELSE Matches(MongoLoad(id), "paused", TRUE)
IsLate(id) ==
    IF backend = "redis" THEN LateOf(key[id])
    ELSE Matches(MongoLoad(id), "late", TRUE)
\* the ids of the records list(paused=p, late=l) yields
ListedIds(p, l) ==
    IF backend = "redis" THEN ListIds(p, l)
    ELSE {MongoFound(p, l)[n].id : n \in 1..Len(MongoFound(p, l))}
\* the ids of the records upcoming_deadlines yields, up to the first member
\* that does not load
UpcomingYielded ==
    IF backend = "redis"
    THEN {UpcomingIds[n] : n \in {m \in 1..Len(UpcomingIds) :
                                     \A k \in 1..m : LoadStatus(UpcomingIds[k]) = "ok"}}
    ELSE {MongoUpcoming[n].id : n \in 1..Len(MongoUpcoming)}
\* a call of create, of update, of delete is this step
Creates(canary) == RedisCreate(canary) \/ MongoCreate(canary)
Updates(identifier, updates) ==
    RedisUpdate(identifier, updates) \/ MongoUpdate(identifier, updates)
Deletes(identifier) == RedisDelete(identifier) \/ MongoDelete(identifier)
\* Redis: no key and no index entry refers to id
NoEntry(id) ==
    /\ id \notin active \cup paused \cup late \cup ontime
    /\ id \notin DOMAIN deadlines
    /\ key[id] = Nil /\ emails_k[id] = <<>> /\ history_k[id] = Nil
    /\ \A s \in DOMAIN slugs : slugs[s] # id

\* ------------------------------------------------------------ claims

\* C1: Redis: every stored canary id is in exactly one of active and paused,
\* and every id in active is in exactly one of late and ontime, so no id is
\* in both active and paused or in both late and ontime.
C1_ExactlyOneMembership ==
    backend = "redis" =>
        \A id \in StoredIds :
            /\ (id \in active) # (id \in paused)
            /\ id \in active => ((id \in late) # (id \in ontime))

\* no two stored canaries have the same slug, and find_identifier(s) returns
\* id exactly when the stored canary id has slug s
SlugsAgree ==
    /\ \A i, j \in StoredIds, s \in Slugs : HasSlug(i, s) /\ HasSlug(j, s) => i = j
    /\ \A s \in Slugs, id \in Ids : FindsId(s, id) <=> HasSlug(id, s)
\* a create, or an update of a stored canary, that names a slug bound to
\* another id fails and changes nothing
SlugConflictRefused ==
    \A id \in Ids, s \in Slugs :
        /\ \E other \in Ids \ {id} : FindsId(s, other)
        /\ \/ \E c \in CreateInputs(workload) : c.id = id /\ c.slug = s /\ Creates(c)
           \/ /\ id \in StoredIds /\ ~HasSlug(id, s)
              /\ \E u \in UpdateInputs(workload) :
                    "slug" \in u.has /\ u.slug = s /\ Updates(id, u)
        => last'.status # "ok" /\ UNCHANGED store
\* C2: in both stores the slug-to-id mapping is injective and agrees with
\* the records (no two stored canaries have the same slug, find_identifier(s)
\* returns id exactly when the stored canary id has slug s), and a create or
\* update that would give a canary a slug bound to a different id fails and
\* changes nothing.
C2_SlugInjective == []SlugsAgree /\ [][SlugConflictRefused]_vars

DeleteLeavesNoEntry ==
    \A id \in Ids :
        backend = "redis" /\ id \in StoredIds /\ Deletes(id) =>
            /\ NoEntry(id)'
            /\ GetStatus(id)' = "NotFound"
            /\ \A s \in Slugs : (HasSlug(id, s) \/ FindsId(s, id)) => s \notin DOMAIN slugs'
\* C3: Redis: after delete(id) of an existing canary no index entry refers
\* to id: it is in no membership set and not in deadlines, its hash, emails
\* and history keys do not exist, no slug of the slug hash maps to it,
\* get(id) fails with NotFound, and every slug it held is unbound, so that
\* find_identifier fails with NotFound and a create with that slug is not
\* refused.
C3_DeleteLeavesNoEntry == [][DeleteLeavesNoEntry]_vars

\* C4: list with a paused filter yields exactly the stored canaries whose
\* paused flag equals the filter, list with a late filter exactly those
\* whose late flag equals the filter; so list(late=true) and
\* list(late=false) are disjoint and together hold every non-paused canary.
C4_ListFilters ==
    /\ \A f \in BOOLEAN :
        LET arg == IF f THEN "True" ELSE "False"
        IN /\ ListedIds(arg, "None") = {id \in StoredIds : IsPaused(id) = f}
           /\ ListedIds("None", arg) = {id \in StoredIds : IsLate(id) = f}
    /\ ListedIds("None", "True") \cap ListedIds("None", "False") = {}
    /\ {id \in StoredIds : ~IsPaused(id)}
          \subseteq ListedIds("None", "True") \cup ListedIds("None", "False")

\* C5: in both stores upcoming_deadlines produces exactly the stored
\* canaries that are neither paused nor late.
C5_UpcomingExact ==
    UpcomingYielded = {id \in StoredIds : ~IsPaused(id) /\ ~IsLate(id)}

\* C6: for every stored canary get(id) succeeds, and the record it returns
\* has a deadline exactly when the canary is not paused.
C6_PausedOrDeadline ==
    \A id \in StoredIds :
        /\ GetStatus(id) = "ok"
        /\ IsPaused(id) <=> "deadline" \notin GetRecord(id).has

SameSlugConflict ==
    last'.op = "create" /\ calls' # calls =>
        \A c \in CreateInputs(workload) :
            /\ c.id \notin StoredIds
            /\ \E first \in StoredIds \ {c.id} : HasSlug(first, c.slug)
            /\ Creates(c)
            => last'.status = "Conflict" /\ UNCHANGED store
\* C7: when a canary with slug s is stored, a create for a canary of a
\* different, new id with the same slug s fails with Conflict and leaves the
\* whole store unchanged.
C7_SameSlugConflict == [][SameSlugConflict]_vars

GetAfterCreate ==
    last'.op = "create" /\ last'.status = "ok" /\ calls' # calls =>
        \A c \in CreateInputs(workload) :
            WellFormed(c) /\ Creates(c) =>
                GetStatus(c.id)' = "ok" /\ GetRecord(c.id)' = c
\* C8: get(c.id) right after create(c) of a canary with id, name, slug,
\* periodicity, paused, late, emails, history and (when not paused) deadline
\* returns a record whose every field equals that of c.
C8_GetAfterCreate == [][GetAfterCreate]_vars

\* the updates dict {paused: True}
PausedOnly == [EmptyDict EXCEPT !.has = {"paused"}, !.paused = TRUE]
PauseClearsDeadline ==
    \A id \in Ids :
        id \in StoredIds /\ ~IsPaused(id) /\ Updates(id, PausedOnly) =>
            /\ id \notin UpcomingYielded'
            /\ GetStatus(id)' = "ok"
            /\ "deadline" \notin GetRecord(id)'.has
\* C9: in both stores, after update(id, {paused: true}) on a stored canary
\* that is not paused, upcoming_deadlines does not produce the canary and
\* get(id) returns a record with no deadline.
C9_PauseClearsDeadline == [][PauseClearsDeadline]_vars

DeleteAbsentNotFound ==
    \A id \in Ids :
        id \notin StoredIds /\ Deletes(id) =>
            last'.status = "NotFound" /\ UNCHANGED store
\* C10: in both stores delete(id) of an id with no stored record fails with
\* NotFound and leaves every key and index unchanged.
C10_DeleteAbsentNotFound == [][DeleteAbsentNotFound]_vars

\* the updates dict that names the one key k, with the value None
NoneOnly(k) == [EmptyDict EXCEPT !.has = {k}, !.none = {k}]

UpdateAbsent ==
    last'.op = "update" /\ calls' # calls =>
        \A id \in Ids, u \in UpdateInputs(workload) :
            id \notin StoredIds /\ Updates(id, u) =>
                /\ UNCHANGED store
                /\ last'.status = IF backend = "redis" THEN "NotFound" ELSE "ok"
\* C11: update(id, updates) of an id with no stored record fails with
\* NotFound on the Redis store and returns without error on the MongoDB
\* store, whatever the updates dict holds, and in both it leaves every key,
\* index and document unchanged.
C11_UpdateAbsent == [][UpdateAbsent]_vars

HistoryRoundTrip ==
    last'.op = "update" /\ last'.status = "ok" /\ calls' # calls =>
        \A id \in Ids, u \in UpdateInputs(workload) :
            /\ backend = "redis" /\ id \in StoredIds /\ GetStatus(id) = "ok"
            /\ u.has = {"history"} /\ u.none = {}
            /\ Updates(id, u)
            => GetStatus(id)' = "ok" /\ GetRecord(id)'.history = u.history
\* C12: Redis: after update(id, {history: entries}), get(id).history is
\* exactly entries: as many (timestamp, comment) pairs, each unchanged, in
\* ascending timestamp order, also when two entries carry the same comment.
C12_HistoryRoundTrip == [][HistoryRoundTrip]_vars

ClearsOnly ==
    last'.op = "update" /\ calls' # calls =>
        \A id \in Ids, k \in {"emails", "history"} :
            /\ backend = "redis" /\ id \in StoredIds /\ GetStatus(id) = "ok"
            /\ Updates(id, NoneOnly(k))
            => /\ emails_k'[id] = IF k = "emails" THEN <<>> ELSE emails_k[id]
               /\ history_k'[id] = IF k = "history" THEN Nil ELSE history_k[id]
               /\ key'[id] = key[id]
               /\ UNCHANGED <<slugs, active, paused, late, ontime, deadlines>>
               /\ GetStatus(id)' = "ok"
\* C16: Redis: update(id, {emails: None}) or update(id, {history: None}) on
\* a stored canary clears that canary's emails list or history sorted set and
\* nothing else: its hash, its slug binding, its membership-set entries and
\* its deadline score are unchanged, and get(id) still succeeds.
C16_ClearsOnly == [][ClearsOnly]_vars

DeadlineWritten ==
    last'.op = "update" /\ calls' # calls =>
        \A id \in Ids, u \in UpdateInputs(workload) :
            /\ backend = "redis" /\ id \in StoredIds /\ GetStatus(id) = "ok"
            /\ ~IsPaused(id)
            /\ u.has = {"deadline"} /\ u.none = {}
            /\ Updates(id, u)
            => /\ id \in DOMAIN deadlines'
               /\ deadlines'[id] = timestamp(u.deadline)
               /\ GetStatus(id)' = "ok"
               /\ GetRecord(id)'.deadline = u.deadline
\* C17: Redis: after update(id, {deadline: T}) on a stored canary that is
\* not paused, the score of id in deadlines is T and get(id).deadline is T.
C17_DeadlineWritten == [][DeadlineWritten]_vars

\* the create of caller p commits in this step
CreateCommits(p) ==
    /\ callers[p].op = "create"
    /\ Execute(p) \/ (InsertOne(p) /\ last'.status = "ok")
OneSlugWinner ==
    \A p \in Callers :
        CreateCommits(p) =>
            \A other \in Ids \ {callers[p].id} : ~HasSlug(other, callers[p].canary.slug)
\* C13: in both stores, of two callers that create canaries of different
\* ids with the same slug at the same time at most one succeeds: under every
\* interleaving of their commands no create commits while a stored canary of
\* another id has its slug.
C13_OneSlugWinner == [][OneSlugWinner]_vars

SameIdOneWinner ==
    \A p \in Callers :
        LET id == callers[p].id
            canary == callers[p].canary
        IN backend = "redis" /\ callers[p].op = "create" /\ callers'[p].pc = "done"
           /\ callers[p].pc # "done" =>
              IF callers'[p].status = "ok"
              THEN /\ ~Exists(id)
                   /\ key'[id] = HashData(canary)
                   /\ emails_k'[id] = canary.emails
                   /\ history_k'[id] = ZAddAll(Nil, canary.history)
                   /\ slugs'[canary.slug] = id
                   /\ id \in active' \ paused' /\ id \in ontime' \ late'
              ELSE /\ callers'[p].status = "Conflict"
                   /\ Exists(id) \/ canary.slug \in DOMAIN slugs
                   /\ UNCHANGED redis
\* C18: Redis: of two callers that create the same id at the same time
\* exactly one commits, under every interleaving: a create commits only when
\* the id has no hash, and the hash, emails, history, slug binding and
\* membership sets then hold the values of that call; the other create fails
\* with Conflict, only because the id is stored (or the slug bound), and
\* writes nothing.
C18_SameIdOneWinner == [][SameIdOneWinner]_vars
\* both creates of one id are over: the one that won the EXEC, and the one
\* whose EXEC was aborted and whose second run found the id stored
C18_Witness ==
    \E p, q \in Callers :
        /\ p # q /\ backend = "redis"
        /\ callers[p].pc = "done" /\ callers[q].pc = "done"
        /\ callers[p].op = "create" /\ callers[q].op = "create"
        /\ callers[p].id = callers[q].id
        /\ callers[p].canary.slug # callers[q].canary.slug
        /\ callers[p].status = "ok" /\ callers[q].status = "Conflict"
        /\ callers[q].retries >= 1
        /\ key[callers[p].id] = HashData(callers[p].canary)

YieldsStored ==
    \A p \in Callers :
        LoadMember(p) =>
            LET i == Head(callers[p].todo)
            IN IF Exists(i)
               THEN callers'[p].pc = "iterating" \/ callers'[p].status # "NotFound"
               ELSE callers'[p].pc = "done" /\ callers'[p].status = "NotFound"
\* C20: Redis: every record that list (verbose or brief) or
\* upcoming_deadlines yields is of a canary whose hash exists when it is
\* loaded: for a member deleted by another caller after the ids were read
\* the iteration fails with NotFound and yields no record.
C20_YieldsStored == [][YieldsStored]_vars

\* the connection is lost in this step
Lost == net' # net
RetriedUntilAnswered ==
    /\ Trying /\ Lost =>
          /\ pending'.pc = pending.pc
          /\ pending'.tries = pending.tries + 1
          /\ last' = last
    /\ Trying /\ pending'.pc = "done" =>
          /\ ~Lost
          /\ pending'.status \in {"ok", "NotFound", "Conflict", "Error"}
    /\ pending.pc = "trying" /\ ~Lost /\ pending' # pending =>
          /\ pending'.pc = "done"
          /\ pending'.tries = pending.tries
          /\ pending.op \in {"get", "delete"} /\ Matching("id", pending.id) = {}
                => pending'.status = "NotFound"
          /\ pending.op = "find_identifier" /\ Matching("slug", pending.slug) = {}
                => pending'.status = "NotFound"
\* C14: MongoDB: in create, update, get, delete, find_identifier and list a
\* lost connection (AutoReconnect) is never raised to the caller and is
\* retried without limit: a call ends only on an attempt the store answers,
\* an attempt that finds nothing ends it with NotFound at once, and when the
\* connection stays up in the end every call in its loop ends.
C14_RetriedUntilAnswered ==
    [][RetriedUntilAnswered]_vars /\ (Trying ~> pending.pc = "done")
\* a get that was answered after two attempts were lost
C14_Witness ==
    /\ pending.pc = "done" /\ pending.op = "get"
    /\ pending.tries >= 2 /\ pending.status = "ok"

SameAsWithoutFailures ==
    /\ pending.pc = "trying" /\ pending'.pc = "done"
    /\ pending.op \in {"create", "delete"}
    /\ pending.applied
    => /\ pending'.status = "ok"
       /\ pending.op = "create" => Cardinality(Matching("id", pending.id))' = 1
\* C15: MongoDB: a create or delete whose earlier attempt was applied by the
\* store before the connection was lost ends as the call without failures
\* does: create returns without error with exactly one document stored,
\* delete of a stored id returns without error.
C15_SameAsWithoutFailures == [][SameAsWithoutFailures]_vars

Listing == pending.op \in {"list", "upcoming_deadlines"}
RestartsFromFirst ==
    Listing =>
        /\ pending.pos = Len(pending.yielded) - pending.mark
        /\ \A n \in 1..pending.pos : pending.yielded[pending.mark + n] = Found[n]
        /\ pending.pc = "done" =>
              \A n \in 1..pending.mark :
                  \E m \in (pending.mark + 1)..Len(pending.yielded) :
                      pending.yielded[m] = pending.yielded[n]
RestartStep ==
    Listing /\ Lost /\ pending.pos >= 1 =>
        /\ pending'.pc = "iterating"
        /\ pending'.pos = 0
        /\ pending'.yielded = pending.yielded
\* C19: MongoDB: when the connection is lost after a list (or
\* upcoming_deadlines) has yielded k >= 1 records, the retry runs the same
\* find with skip 0: the iteration starts again at the first matching record
\* and the records already yielded are yielded again.
C19_RestartsFromFirst == []RestartsFromFirst /\ [][RestartStep]_vars
\* a list that ended after a retry and yielded its first record twice
C19_Witness ==
    /\ Listing /\ pending.pc = "done"
    /\ pending.mark >= 1
    /\ Len(pending.yielded) > pending.mark
    /\ pending.yielded[pending.mark + 1] = pending.yielded[1]

====
